---- MODULE Spec2Model ----
(***************************************************************************)
(* A model of rust-libsvm's marshalling layer: the sparse vector DataVec   *)
(* (src/src/datavec.rs), the Parameter Set SvmParameter (src/src/param.rs) *)
(* and the Model Handle SvmModel (src/src/model.rs).                       *)
(*                                                                         *)
(* Floating point values are stood for by small integers; 0 stands for     *)
(* 0.0.  An SvmNode(idx, val) is the pair <<idx, val>>.                    *)
(***************************************************************************)
EXTENDS Integers, Sequences, FiniteSets, TLC

VARIABLES
    dv,         \* the DataVec under test
    dvOp,       \* the last DataVec operation: its name, argument and outcome
    p,          \* the Parameter Set the caller holds
    heap,       \* the arrays allocated for weight caches, by address
    c_params,   \* the CSvmParameter the last crep call returned
    recovered,  \* the Parameter Set the last from_crep call returned
    pOp,        \* the last Parameter Set operation
    models,     \* the SvmModel handles, by slot
    foreign,    \* the foreign CSvmModel structs, by address
    frees,      \* per handle, the pointers given to svm_free_and_destroy_model
    crashed,    \* the process has faulted on a null pointer
    mOp         \* the last operation of the Model Handle run

vecVars == <<dv, dvOp>>

parVars == <<p, heap, c_params, recovered, pOp>>

modVars == <<models, foreign, frees, crashed, mOp>>

vars == <<dv, dvOp, p, heap, c_params, recovered, pOp, models, foreign, frees, crashed, mOp>>

\* ------------------------------------------------------------------ bounds

\* Longest input sequence handed to a DataVec constructor, and longest vector
\* a mutable raw-access view is grown to (plus the sentinel).
MaxLen == 3

\* Longest weight-override list of a ClassificationC configuration.
MaxWeights == 2

\* Most weight-cache fills (two arrays each) in one run.
MaxAlloc == 2

\* Model Handles in one run.
MaxHandles == 1

\* ------------------------------------------------------------- small sets

\* No DataVec: none was built yet, or the build or the resort panicked, or
\* the vector was dropped.
NoVec == [live |-> FALSE, v |-> <<>>, is_sorted |-> TRUE]

SeqsUpTo(S, n) == UNION {[1..k -> S] : k \in 0..n}

\* f64 values of dense inputs (0 is 0.0).
Vals == {0, 1, 2}

\* Indices of sparse input nodes: the sentinel -1, the valid indices 1 and 2
\* and the malformed indices 0 and -2.
Indices == (0 - 2)..2

\* The terminator SvmNode(-1, 0.0).
Sentinel == <<0 - 1, 0>>

\* The nodes of sparse inputs and of writes through a mutable view.  sort
\* never reads a node's value, so one nonzero value stands for all.
Nodes == (Indices \X {1}) \cup {Sentinel}

DenseInputs == SeqsUpTo(Vals, MaxLen)

SparseInputs == SeqsUpTo(Nodes, MaxLen)

\* =================================================================== DataVec

\* The comparator closure handed to sort_by.
Cmp(a, b) ==
    LET idx1 == a[1]
        idx2 == b[1]
    IN  IF idx1 = -1 /\ idx2 = -1 THEN "Equal"
        ELSE IF idx1 = -1 THEN "Greater"
        ELSE IF idx2 = -1 THEN "Less"
        ELSE IF idx1 < 1 \/ idx2 < 1 THEN "Panic"
        ELSE IF idx1 < idx2 THEN "Less"
        ELSE IF idx1 = idx2 THEN "Equal"
        ELSE "Greater"

\* Vec::sort_by on a short slice is a stable insertion sort: element e is
\* compared with its left neighbours, right to left, while it is Less.  The
\* result is the number of elements of s[1..j] that stay before e, or -1
\* when a comparison that is made panics.
RECURSIVE InsertPos(_, _, _)
InsertPos(s, e, j) ==
    IF j = 0 THEN 0
    ELSE LET c == Cmp(e, s[j])
         IN  IF c = "Panic" THEN -1
             ELSE IF c = "Less" THEN InsertPos(s, e, j - 1)
             ELSE j

RECURSIVE SortFrom(_, _)
SortFrom(s, i) ==
    IF i > Len(s) THEN [panic |-> FALSE, v |-> s]
    ELSE LET pos == InsertPos(s, s[i], i - 1)
         IN  IF pos = -1 THEN [panic |-> TRUE, v |-> s]
             ELSE SortFrom(SubSeq(s, 1, pos) \o <<s[i]>> \o SubSeq(s, pos + 1, i - 1)
                             \o SubSeq(s, i + 1, Len(s)),
                           i + 1)

SortBy(x) == SortFrom(x, 2)

\* DataVec::sort: sort by index, then look at x[x.len() - 1] and push the
\* sentinel when it is not one.  On an empty vector x.len() - 1 underflows
\* (debug build) or indexes out of bounds (release build): a panic either way.
sort(x) ==
    LET r == SortBy(x)
    IN  IF r.panic THEN [panic |-> TRUE, v |-> x]
        ELSE IF Len(r.v) = 0 THEN [panic |-> TRUE, v |-> x]
        ELSE IF r.v[Len(r.v)][1] # -1
             THEN [panic |-> FALSE, v |-> Append(r.v, Sentinel)]
             ELSE [panic |-> FALSE, v |-> r.v]

\* from_dense's loop numbering the entries from 0 instead of 1.
RECURSIVE DenseLoopZeroBased(_, _, _)
DenseLoopZeroBased(x, i, acc) ==
    IF i >= Len(x) THEN acc
    ELSE IF x[i + 1] = 0 THEN DenseLoopZeroBased(x, i + 1, acc)
    ELSE DenseLoopZeroBased(x, i + 1, Append(acc, <<i, x[i + 1]>>))

\* The loop of from_dense from 0-based position i on, pushing onto acc.
RECURSIVE DenseLoop(_, _, _)
DenseLoop(x, i, acc) ==
    IF i >= Len(x) THEN acc
    ELSE IF x[i + 1] = 0 THEN DenseLoop(x, i + 1, acc)
    ELSE DenseLoop(x, i + 1, Append(acc, <<i + 1, x[i + 1]>>))

from_dense(x) ==
    [live |-> TRUE, v |-> Append(DenseLoop(x, 0, <<>>), Sentinel), is_sorted |-> TRUE]

from_sparse(x) ==
    LET r == sort(x)
    IN  IF r.panic THEN NoVec ELSE [live |-> TRUE, v |-> r.v, is_sorted |-> TRUE]

\* deref_mut: the flag is cleared and the caller gets &mut Vec<SvmNode>;
\* newv is the vector as the caller leaves it.
deref_mut(d, newv) == [live |-> TRUE, v |-> newv, is_sorted |-> FALSE]

\* resort: sort(self) reaches the vector through deref_mut.
resort(d) ==
    IF ~d.is_sorted
    THEN LET r == sort(d.v)
         IN  IF r.panic THEN NoVec ELSE [live |-> TRUE, v |-> r.v, is_sorted |-> TRUE]
    ELSE d

Op(name, arg, clean, panic) ==
    [op |-> name, arg |-> arg, clean |-> clean, panic |-> panic]

FromDense(x) ==
    /\ ~dv.live /\ dvOp.op = "init"
    /\ dv' = from_dense(x)
    /\ dvOp' = Op("from_dense", x, TRUE, FALSE)
    /\ UNCHANGED <<parVars, modVars>>

FromSparse(x) ==
    /\ ~dv.live /\ dvOp.op = "init"
    /\ dv' = from_sparse(x)
    /\ dvOp' = Op("from_sparse", x, TRUE, ~dv'.live)
    /\ UNCHANGED <<parVars, modVars>>

DerefMutPush(n) ==
    /\ dv.live
    /\ Len(dv.v) <= MaxLen
    /\ dv' = deref_mut(dv, Append(dv.v, n))
    /\ dvOp' = Op("deref_mut", <<>>, dv.is_sorted, FALSE)
    /\ UNCHANGED <<parVars, modVars>>

DerefMutPop ==
    /\ dv.live
    /\ Len(dv.v) > 0
    /\ dv' = deref_mut(dv, SubSeq(dv.v, 1, Len(dv.v) - 1))
    /\ dvOp' = Op("deref_mut", <<>>, dv.is_sorted, FALSE)
    /\ UNCHANGED <<parVars, modVars>>

DerefMutSet(i, n) ==
    /\ dv.live
    /\ i \in 1..Len(dv.v)
    /\ dv' = deref_mut(dv, [dv.v EXCEPT ![i] = n])
    /\ dvOp' = Op("deref_mut", <<>>, dv.is_sorted, FALSE)
    /\ UNCHANGED <<parVars, modVars>>

Resort ==
    /\ dv.live
    /\ dv' = resort(dv)
    /\ dvOp' = Op("resort", <<>>, dv.is_sorted, ~dv'.live)
    /\ UNCHANGED <<parVars, modVars>>

\* The vector goes out of scope; the caller may build another one.  (After a
\* panic nothing more happens.)
DropVec ==
    /\ dv.live
    /\ dv' = NoVec
    /\ dvOp' = Op("init", <<>>, TRUE, FALSE)
    /\ UNCHANGED <<parVars, modVars>>

\* ============================================================= SvmParameter

\* A raw pointer or an Option<Vec<_>>: 0 is null / None, any other value is
\* the address of an array in heap.
Null == 0

\* One kernel of each variant; the fields of a variant hold different values.
Kernels ==
    {[k |-> "Linear"],
     [k |-> "Poly", degree |-> 3, gamma |-> 1, coef0 |-> 2],
     [k |-> "Rbf", gamma |-> 1],
     [k |-> "Sigmoid", gamma |-> 2, coef0 |-> 1],
     [k |-> "Precomputed"]}

\* Weight{label, weight}; the multipliers differ from the labels.
WeightElems == {[label |-> 1, weight |-> 3], [label |-> 2, weight |-> 4]}

WeightLists == SeqsUpTo(WeightElems, MaxWeights)

\* ClassificationC with every weight-override list (and a second cost), and
\* one configuration of each other type.
SvmTypes ==
    {[t |-> "CSvc", c |-> 1, weights |-> w] : w \in WeightLists}
        \cup {[t |-> "CSvc", c |-> 2, weights |-> <<>>],
              [t |-> "NuSvc", nu |-> 1],
              [t |-> "OneClass", nu |-> 2],
              [t |-> "EpsilonSvr", p |-> 1],
              [t |-> "NuSvr", nu |-> 2]}

\* Two settings of the scalar knobs that differ in every knob.
Scalars ==
    {[shrinking |-> TRUE, probability |-> FALSE, cache_size |-> 1, epsilon |-> 2],
     [shrinking |-> FALSE, probability |-> TRUE, cache_size |-> 2, epsilon |-> 1]}

DefaultKernel == [k |-> "Rbf", gamma |-> 1]

DefaultScalars ==
    [shrinking |-> TRUE, probability |-> FALSE, cache_size |-> 1, epsilon |-> 2]

\* The kernels and scalar knobs SvmParameter::new is called with: every
\* kernel with one setting of the knobs, every setting with one kernel.
KernelScalarInputs == (Kernels \X {DefaultScalars}) \cup ({DefaultKernel} \X Scalars)

NoParam == [live |-> FALSE]

NoCParams == [svm_type |-> "none"]

new(kernel_param, svm_type_param, shrinking, probability, cache_size, epsilon) ==
    [live |-> TRUE,
     kernel_param |-> kernel_param,
     svm_type_param |-> svm_type_param,
     shrinking |-> shrinking,
     probability |-> probability,
     cache_size |-> cache_size,
     epsilon |-> epsilon,
     weight_labels |-> Null,
     weights |-> Null,
     in_model |-> FALSE]

\* Dropping the Vec at address a releases its buffer.
Free(h, a) == IF a = Null THEN h ELSE [h EXCEPT ![a] = [live |-> FALSE, data |-> <<>>]]

to_kernel_type(kernel_param) == kernel_param.k

to_svm_type(svm_type_param) == svm_type_param.t

\* CSvmParameter::default().
CSvmParameterDefault ==
    [svm_type |-> "CSvc", kernel_type |-> "Linear", degree |-> 0, gamma |-> 0,
     coef0 |-> 0, cache_size |-> 0, eps |-> 0, c |-> 0, nr_weight |-> 0,
     weight_label |-> Null, weight |-> Null, nu |-> 0, p |-> 0,
     shrinking |-> FALSE, probability |-> FALSE]

\* An invalidate_cache that does nothing.
invalidate_cache_skipped(st) == st

\* invalidate_cache assigns None to weight_labels, twice; weights is never
\* cleared.  st is [p, heap].
invalidate_cache(st) ==
    [p |-> [st.p EXCEPT !.weight_labels = Null],
     heap |-> Free(st.heap, st.p.weight_labels)]

\* A cache_weights that tests the weights entry instead of weight_labels.
cache_weights_tests_weights(st, weights) ==
    IF st.p.weights # Null THEN st
    ELSE LET raw_weight_labels == [i \in 1..Len(weights) |-> weights[i].label]
             raw_weights == [i \in 1..Len(weights) |-> weights[i].weight]
             la == Len(st.heap) + 1
             wa == Len(st.heap) + 2
             h1 == st.heap \o <<[live |-> TRUE, data |-> raw_weight_labels],
                               [live |-> TRUE, data |-> raw_weights]>>
         IN  [p |-> [st.p EXCEPT !.weight_labels = la, !.weights = wa],
              heap |-> h1]

\* cache_weights: nothing when weight_labels is Some; otherwise both arrays
\* are built and stored, and the Vec weights held before is dropped.
cache_weights(st, weights) ==
    IF st.p.weight_labels # Null THEN st
    ELSE LET raw_weight_labels == [i \in 1..Len(weights) |-> weights[i].label]
             raw_weights == [i \in 1..Len(weights) |-> weights[i].weight]
             la == Len(st.heap) + 1
             wa == Len(st.heap) + 2
             h1 == st.heap \o <<[live |-> TRUE, data |-> raw_weight_labels],
                               [live |-> TRUE, data |-> raw_weights]>>
         IN  [p |-> [st.p EXCEPT !.weight_labels = la, !.weights = wa],
              heap |-> Free(h1, st.p.weights)]

\* The kernel arm of crep.
CrepKernel(c, kernel_param) ==
    LET c1 == [c EXCEPT !.kernel_type = to_kernel_type(kernel_param)]
    IN  CASE kernel_param.k = "Poly" ->
                 [c1 EXCEPT !.degree = kernel_param.degree,
                            !.gamma = kernel_param.gamma,
                            !.coef0 = kernel_param.coef0]
          [] kernel_param.k = "Rbf" -> [c1 EXCEPT !.gamma = kernel_param.gamma]
          [] kernel_param.k = "Sigmoid" ->
                 [c1 EXCEPT !.gamma = kernel_param.gamma, !.coef0 = kernel_param.coef0]
          [] OTHER -> c1

\* crep: the foreign struct, the Parameter Set with its cache as the call
\* leaves it, and the heap.  unwrap() on an absent cache entry panics.
crep(st) ==
    LET s1 == IF ~st.p.in_model THEN invalidate_cache(st) ELSE st
        t == st.p.svm_type_param
        c1 == CrepKernel(CSvmParameterDefault, st.p.kernel_param)
        c2 == [c1 EXCEPT !.svm_type = to_svm_type(t)]
        s2 == IF t.t = "CSvc" THEN cache_weights(s1, t.weights) ELSE s1
        c3 == CASE t.t = "CSvc" ->
                       [c2 EXCEPT !.c = t.c,
                                  !.nr_weight = Len(t.weights),
                                  !.weight = s2.p.weights,
                                  !.weight_label = s2.p.weight_labels]
                [] t.t = "NuSvc" -> [c2 EXCEPT !.nu = t.nu]
                [] t.t = "OneClass" -> [c2 EXCEPT !.nu = t.nu]
                [] t.t = "EpsilonSvr" -> [c2 EXCEPT !.p = t.p]
                [] t.t = "NuSvr" -> [c2 EXCEPT !.nu = t.nu]
        c4 == [c3 EXCEPT !.shrinking = st.p.shrinking,
                         !.probability = st.p.probability,
                         !.cache_size = st.p.cache_size,
                         !.eps = st.p.epsilon]
    IN  [p |-> s2.p,
         heap |-> s2.heap,
         c |-> c4,
         panic |-> t.t = "CSvc" /\ (s2.p.weights = Null \/ s2.p.weight_labels = Null)]

\* What a read past the end of an array, or of a released array, may give.
Garbage == {0, 7}

\* slice::from_raw_parts(a, n) read element by element: the array's own
\* elements where it has them, anything elsewhere (undefined behaviour).
SliceReads(h, a, n) ==
    {s \in [1..n -> Garbage \cup {h[a].data[i] : i \in 1..Len(h[a].data)}] :
        \A i \in 1..n : (h[a].live /\ i <= Len(h[a].data)) => s[i] = h[a].data[i]}

\* make_weights: the lists it may return.
make_weights(nr_weight, weight_label, weight, h) ==
    IF nr_weight = 0 \/ weight_label = Null \/ weight = Null
    THEN {<<>>}
    ELSE {[i \in 1..nr_weight |-> [label |-> ls[i], weight |-> ws[i]]] :
             ls \in SliceReads(h, weight_label, nr_weight),
             ws \in SliceReads(h, weight, nr_weight)}

\* from_crep: the Parameter Sets it may return for the struct c.
from_crep(c, h) ==
    LET kernel_param ==
            CASE c.kernel_type = "Linear" -> [k |-> "Linear"]
              [] c.kernel_type = "Poly" ->
                     [k |-> "Poly", degree |-> c.degree, gamma |-> c.gamma, coef0 |-> c.coef0]
              [] c.kernel_type = "Rbf" -> [k |-> "Rbf", gamma |-> c.gamma]
              [] c.kernel_type = "Sigmoid" ->
                     [k |-> "Sigmoid", gamma |-> c.gamma, coef0 |-> c.coef0]
              [] c.kernel_type = "Precomputed" -> [k |-> "Precomputed"]
        svm_type_params ==
            CASE c.svm_type = "CSvc" ->
                     {[t |-> "CSvc", c |-> c.c, weights |-> w] :
                         w \in make_weights(c.nr_weight, c.weight_label, c.weight, h)}
              [] c.svm_type = "NuSvc" -> {[t |-> "NuSvc", nu |-> c.nu]}
              [] c.svm_type = "OneClass" -> {[t |-> "OneClass", nu |-> c.nu]}
              [] c.svm_type = "EpsilonSvr" -> {[t |-> "EpsilonSvr", p |-> c.p]}
              [] c.svm_type = "NuSvr" -> {[t |-> "NuSvr", nu |-> c.nu]}
    IN  {[live |-> TRUE,
          kernel_param |-> kernel_param,
          svm_type_param |-> t,
          shrinking |-> c.shrinking,
          probability |-> c.probability,
          cache_size |-> c.cache_size,
          epsilon |-> c.eps,
          weight_labels |-> Null,
          weights |-> Null,
          in_model |-> FALSE] : t \in svm_type_params}

\* protected::set_in_model.
set_in_model(param, val) == [param EXCEPT !.in_model = val]

POp(name, panic) == [op |-> name, panic |-> panic]

\* The caller assigns the public field svm_type_param.  The foreign struct
\* of an earlier translation is not used any more.
SetSvmTypeParam(t) ==
    /\ p.live
    /\ t # p.svm_type_param
    /\ p' = [p EXCEPT !.svm_type_param = t]
    /\ c_params' = NoCParams
    /\ recovered' = NoParam
    /\ pOp' = POp("set_svm_type_param", FALSE)
    /\ UNCHANGED <<heap, vecVars>>

\* protected::crep(&p).
Crep ==
    /\ p.live
    /\ LET r == crep([p |-> p, heap |-> heap])
       IN  /\ Len(r.heap) <= 2 * MaxAlloc
           /\ p' = IF r.panic THEN NoParam ELSE r.p
           /\ heap' = r.heap
           /\ c_params' = IF r.panic THEN NoCParams ELSE r.c
           /\ pOp' = POp("crep", r.panic)
    /\ recovered' = NoParam
    /\ UNCHANGED vecVars

\* protected::param_from_crep(&c_params), on the struct crep has returned.
FromCrep ==
    /\ p.live
    /\ c_params # NoCParams
    /\ recovered' \in from_crep(c_params, heap)
    /\ pOp' = POp("from_crep", FALSE)
    /\ UNCHANGED <<p, heap, c_params, vecVars>>

\* protected::set_in_model(&mut p, true): the Parameter Set is frozen.
SetInModel ==
    /\ p.live
    /\ ~p.in_model
    /\ p' = set_in_model(p, TRUE)
    /\ pOp' = POp("set_in_model", FALSE)
    /\ UNCHANGED <<heap, c_params, recovered, vecVars>>

\* ================================================================= SvmModel

Handles == 1..MaxHandles

\* The SVM-type configurations of the Parameter Sets that are trained with.
TrainTypes ==
    {[t |-> "CSvc", c |-> 1, weights |-> <<[label |-> 1, weight |-> 3]>>],
     [t |-> "CSvc", c |-> 2, weights |-> <<>>],
     [t |-> "NuSvc", nu |-> 1]}

\* The foreign structs svm_train and svm_load_model hand back: the
\* parameter struct inside the model (no weight arrays) and the class count.
ForeignModels ==
    {[alive |-> TRUE,
      param |-> [CSvmParameterDefault EXCEPT !.kernel_type = "Rbf", !.gamma = 1, !.c = 2,
                                             !.cache_size = 1, !.eps = 2],
      nr_class |-> 2],
     [alive |-> TRUE,
      param |-> [CSvmParameterDefault EXCEPT !.svm_type = "NuSvr", !.nu = 1,
                                             !.probability = TRUE],
      nr_class |-> 3]}

NoForeign == [alive |-> FALSE]

\* No SvmModel in this slot yet.
NoHandle == [st |-> "none", crep |-> Null, param |-> NoParam, prob |-> FALSE]

\* A model_from_c_rep that leaves the Parameter Set as it was handed in.
model_from_c_rep_unfrozen(c_model, prob, param) ==
    [st |-> "live", crep |-> c_model, param |-> param, prob |-> prob]

\* model_from_c_rep: the Parameter Set is frozen and moved into the handle
\* with the Training Set.
model_from_c_rep(c_model, prob, param) ==
    [st |-> "live", crep |-> c_model, param |-> set_in_model(param, TRUE), prob |-> prob]

\* SvmModel::load: the handle around whatever svm_load_model returned; the
\* pointer is not tested.
load(ret) == [st |-> "live", crep |-> ret, param |-> NoParam, prob |-> FALSE]

\* #[derive(Clone)] on SvmParameter: the cached arrays are copied into new
\* arrays.  st is [p, heap].
clone(st) ==
    LET la == IF st.p.weight_labels = Null THEN Null ELSE Len(st.heap) + 1
        h1 == IF la = Null THEN st.heap ELSE Append(st.heap, st.heap[st.p.weight_labels])
        wa == IF st.p.weights = Null THEN Null ELSE Len(h1) + 1
        h2 == IF wa = Null THEN h1 ELSE Append(h1, h1[st.p.weights])
    IN  [p |-> [st.p EXCEPT !.weight_labels = la, !.weights = wa], heap |-> h2]

\* A view_params that hands out the clone with its flag as cloned.
view_params_flag_kept(m, fm, h) ==
    IF ~m.param.live
    THEN {[p |-> q, heap |-> h] : q \in from_crep(fm.param, h)}
    ELSE {clone([p |-> m.param, heap |-> h])}

\* view_params: the [p, heap] outcomes.  Without a retained Parameter Set
\* the set is rebuilt from the foreign model's struct fm.param; otherwise
\* it is a clone of the retained one with in_model cleared.
view_params(m, fm, h) ==
    IF ~m.param.live
    THEN {[p |-> q, heap |-> h] : q \in from_crep(fm.param, h)}
    ELSE LET c == clone([p |-> m.param, heap |-> h])
         IN  {[p |-> set_in_model(c.p, FALSE), heap |-> c.heap]}

\* A drop that never reaches the foreign release.
drop_without_release(m) == <<>>

\* Drop for SvmModel: the pointers handed to svm_free_and_destroy_model.
drop(m) == <<m.crep>>

\* The arrays of a Parameter Set are released with it.
FreeParam(h, param) ==
    IF ~param.live THEN h ELSE Free(Free(h, param.weight_labels), param.weights)

MOp(name, h, null) == [op |-> name, h |-> h, null |-> null]

\* The caller's own steps on the Parameter Set it holds leave no foreign
\* struct behind in this run.
CallerIdle ==
    /\ c_params' = NoCParams
    /\ recovered' = NoParam
    /\ pOp' = POp("none", FALSE)
    /\ mOp' = MOp("caller", 0, FALSE)
    /\ UNCHANGED <<models, foreign, frees, crashed, vecVars>>

\* SvmParameter::new by the caller, who holds no Parameter Set.
New(t) ==
    /\ ~crashed
    /\ ~p.live
    /\ p' = new(DefaultKernel, t, DefaultScalars.shrinking, DefaultScalars.probability,
                DefaultScalars.cache_size, DefaultScalars.epsilon)
    /\ heap' = heap
    /\ CallerIdle

\* The caller assigns svm_type_param of the Parameter Set it holds.
CallerSetSvmTypeParam(t) ==
    /\ ~crashed
    /\ p.live
    /\ t # p.svm_type_param
    /\ p' = [p EXCEPT !.svm_type_param = t]
    /\ heap' = heap
    /\ CallerIdle

\* The caller translates the Parameter Set it holds (as training does).
CallerCrep ==
    /\ ~crashed
    /\ p.live
    /\ LET r == crep([p |-> p, heap |-> heap])
       IN  /\ Len(r.heap) <= 2 * MaxAlloc
           /\ ~r.panic
           /\ p' = r.p
           /\ heap' = r.heap
    /\ CallerIdle

\* The caller's Parameter Set goes out of scope.
DropParam ==
    /\ ~crashed
    /\ p.live
    /\ p' = NoParam
    /\ heap' = FreeParam(heap, p)
    /\ CallerIdle

\* model_from_c_rep(crep, prob, param) on the model fm that svm_train has
\* allocated at address h; the caller's Parameter Set moves into the handle.
ModelFromCRep(h, fm) ==
    /\ ~crashed
    /\ models[h].st = "none"
    /\ p.live
    /\ ~p.in_model
    /\ models' = [models EXCEPT ![h] = model_from_c_rep(h, TRUE, p)]
    /\ foreign' = [foreign EXCEPT ![h] = fm]
    /\ p' = NoParam
    /\ c_params' = NoCParams
    /\ recovered' = NoParam
    /\ pOp' = POp("none", FALSE)
    /\ mOp' = MOp("model_from_c_rep", h, FALSE)
    /\ UNCHANGED <<heap, frees, crashed, vecVars>>

\* SvmModel::load.  svm_load_model returns the address h of a new model, or
\* null; &mut *null is undefined behaviour: the handle is built around the
\* null pointer, or the process faults.
Load(h, fm, ret, faults) ==
    /\ ~crashed
    /\ models[h].st = "none"
    /\ ret \in {Null, h}
    /\ faults => ret = Null
    /\ models' = IF faults THEN models ELSE [models EXCEPT ![h] = load(ret)]
    /\ foreign' = IF ret = Null THEN foreign ELSE [foreign EXCEPT ![h] = fm]
    /\ crashed' = faults
    /\ mOp' = MOp("load", h, ret = Null)
    /\ UNCHANGED <<frees, parVars, vecVars>>

\* Decodable::decode: an error of the byte decoder is returned; otherwise
\* the bytes go to a temporary file and SvmModel::load reads it.
Decode(h, fm, ret, faults, decoded) ==
    /\ ~crashed
    /\ models[h].st = "none"
    /\ ret \in {Null, h}
    /\ faults => (ret = Null /\ decoded)
    /\ models' = IF faults \/ ~decoded THEN models ELSE [models EXCEPT ![h] = load(ret)]
    /\ foreign' = IF ret = Null \/ ~decoded THEN foreign ELSE [foreign EXCEPT ![h] = fm]
    /\ crashed' = faults
    /\ mOp' = MOp(IF decoded THEN "decode" ELSE "decode_err", h, decoded /\ ret = Null)
    /\ UNCHANGED <<frees, parVars, vecVars>>

\* An operation that hands self.crep to the foreign library and changes
\* nothing on the Rust side.  The foreign library reads through the
\* pointer: a null pointer faults.
ForeignRead(h) ==
    /\ ~crashed
    /\ models[h].st = "live"
    /\ crashed' = (models[h].crep = Null)
    /\ mOp' = MOp("read", 0, FALSE)
    /\ UNCHANGED <<models, foreign, frees, parVars, vecVars>>

Save(h) == ForeignRead(h)

\* Encodable::encode saves to a temporary file and encodes its bytes.
Encode(h) == ForeignRead(h)

\* get_svm_type, get_nr_class, get_labels, get_nr_sv, get_sv_indices,
\* get_svr_probability and check_probability_model.
Query(h) == ForeignRead(h)

Predict(h) == ForeignRead(h)

PredictValues(h) == ForeignRead(h)

PredictProbability(h) == ForeignRead(h)

\* SvmModel::view_params; the caller holds the returned Parameter Set.
ViewParams(h) ==
    /\ ~crashed
    /\ models[h].st = "live"
    /\ ~p.live
    /\ IF ~models[h].param.live /\ models[h].crep = Null
       THEN /\ crashed' = TRUE
            /\ UNCHANGED <<p, heap>>
       ELSE /\ crashed' = FALSE
            /\ \E r \in view_params(models[h], foreign[h], heap) :
                   /\ Len(r.heap) <= 2 * MaxAlloc
                   /\ p' = r.p
                   /\ heap' = r.heap
    /\ c_params' = NoCParams
    /\ recovered' = NoParam
    /\ pOp' = POp("none", FALSE)
    /\ mOp' = MOp("view_params", h, FALSE)
    /\ UNCHANGED <<models, foreign, frees, vecVars>>

\* The handle goes out of scope: Drop::drop, then the retained Parameter Set
\* and Training Set are released.  svm_free_and_destroy_model releases the
\* model behind a non-null pointer.
Drop(h) ==
    /\ ~crashed
    /\ models[h].st = "live"
    /\ frees' = [frees EXCEPT ![h] = frees[h] \o drop(models[h])]
    /\ foreign' = [a \in Handles |->
                      IF \E i \in 1..Len(drop(models[h])) : drop(models[h])[i] = a
                      THEN NoForeign ELSE foreign[a]]
    /\ models' = [models EXCEPT ![h] = [st |-> "dropped", crep |-> models[h].crep,
                                        param |-> NoParam, prob |-> FALSE]]
    /\ heap' = FreeParam(heap, models[h].param)
    /\ mOp' = MOp("drop", h, FALSE)
    /\ UNCHANGED <<p, c_params, recovered, pOp, crashed, vecVars>>

\* --------------------------------------------------------------- predict*

\* Deref::deref: the shared raw-access view; the flag is not looked at.
deref(d) == d.v

\* The Option<Vec<f64>> a caller passes as output buffer: None, or a vector
\* of some length.
NoBuffer == [some |-> FALSE]

Buffers == {NoBuffer} \cup {[some |-> TRUE, len |-> n] : n \in {1, 3}}

\* get_nr_class: svm_get_nr_class reads the class count of the model.
get_nr_class(fm) == fm.nr_class

\* predict: what svm_predict is called with.
predict(m, test_vec) ==
    [fn |-> "svm_predict", model |-> m.crep, x |-> deref(test_vec)]

\* predict_values: what svm_predict_values is called with; len is the
\* number of slots of the buffer behind dec_values.as_mut_ptr().
predict_values(m, fm, test_vec, dec_values) ==
    LET nr_class == get_nr_class(fm)
        len == (nr_class * (nr_class - 1)) \div 2
    IN  [fn |-> "svm_predict_values", model |-> m.crep, x |-> deref(test_vec),
         allocated |-> ~dec_values.some,
         len |-> IF dec_values.some THEN dec_values.len ELSE len]

\* predict_probability: what svm_predict_probability is called with.
predict_probability(m, fm, test_vec, prob_estimates) ==
    [fn |-> "svm_predict_probability", model |-> m.crep, x |-> deref(test_vec),
     allocated |-> ~prob_estimates.some,
     len |-> IF prob_estimates.some THEN prob_estimates.len ELSE Len(deref(test_vec))]

\* predict on the DataVec the caller holds: the foreign call is recorded as
\* the last thing done with the vector.  The foreign library reads through
\* the model pointer: a null pointer faults.
CallPredict(h) ==
    /\ ~crashed
    /\ models[h].st = "live"
    /\ dv.live
    /\ dvOp' = Op("svm_predict", predict(models[h], dv), dv.is_sorted, FALSE)
    /\ crashed' = (models[h].crep = Null)
    /\ UNCHANGED <<dv, parVars, models, foreign, frees, mOp>>

\* predict_values on the DataVec the caller holds.
CallPredictValues(h, dec_values) ==
    /\ ~crashed
    /\ models[h].st = "live"
    /\ dv.live
    /\ dvOp' = Op("svm_predict_values",
                  predict_values(models[h], foreign[h], dv, dec_values),
                  dv.is_sorted, FALSE)
    /\ crashed' = (models[h].crep = Null)
    /\ UNCHANGED <<dv, parVars, models, foreign, frees, mOp>>

\* predict_probability on the DataVec the caller holds.
CallPredictProbability(h, prob_estimates) ==
    /\ ~crashed
    /\ models[h].st = "live"
    /\ dv.live
    /\ dvOp' = Op("svm_predict_probability",
                  predict_probability(models[h], foreign[h], dv, prob_estimates),
                  dv.is_sorted, FALSE)
    /\ crashed' = (models[h].crep = Null)
    /\ UNCHANGED <<dv, parVars, models, foreign, frees, mOp>>

\* ========================================================== specifications

ModIdle ==
    /\ models = [h \in Handles |-> NoHandle]
    /\ foreign = [h \in Handles |-> NoForeign]
    /\ frees = [h \in Handles |-> <<>>]
    /\ crashed = FALSE
    /\ mOp = MOp("none", 0, FALSE)

ParIdle ==
    /\ p = NoParam
    /\ heap = <<>>
    /\ c_params = NoCParams
    /\ recovered = NoParam
    /\ pOp = POp("none", FALSE)

VecIdle ==
    /\ dv = NoVec
    /\ dvOp = Op("init", <<>>, TRUE, FALSE)

VecInit == VecIdle /\ ParIdle /\ ModIdle

VecNext ==
    \/ \E x \in DenseInputs : FromDense(x)
    \/ \E x \in SparseInputs : FromSparse(x)
    \/ \E n \in Nodes : DerefMutPush(n)
    \/ DerefMutPop
    \/ \E i \in 1..(MaxLen + 1), n \in Nodes : DerefMutSet(i, n)
    \/ Resort
    \/ DropVec

SpecVec == VecInit /\ [][VecNext]_vars

\* A Parameter Set built by SvmParameter::new, then edited, translated and
\* frozen.
ParInit ==
    /\ VecIdle
    /\ ModIdle
    /\ \E ks \in KernelScalarInputs, t \in SvmTypes :
           p = new(ks[1], t, ks[2].shrinking, ks[2].probability,
                   ks[2].cache_size, ks[2].epsilon)
    /\ heap = <<>>
    /\ c_params = NoCParams
    /\ recovered = NoParam
    /\ pOp = POp("new", FALSE)

ParNext ==
    \/ \E t \in SvmTypes : SetSvmTypeParam(t) /\ UNCHANGED modVars
    \/ Crep /\ UNCHANGED modVars
    \/ FromCrep /\ UNCHANGED modVars
    \/ SetInModel /\ UNCHANGED modVars

SpecParam == ParInit /\ [][ParNext]_vars

\* Model Handles made by training and by loading, used and dropped, beside
\* the Parameter Set the caller holds.
ModInit == VecIdle /\ ParIdle /\ ModIdle

ModNext ==
    \/ \E t \in TrainTypes : New(t)
    \/ \E t \in TrainTypes : CallerSetSvmTypeParam(t)
    \/ CallerCrep
    \/ DropParam
    \/ \E h \in Handles, fm \in ForeignModels : ModelFromCRep(h, fm)
    \/ \E h \in Handles, fm \in ForeignModels, ret \in {Null} \cup Handles, faults \in BOOLEAN :
           Load(h, fm, ret, faults)
    \/ \E h \in Handles, fm \in ForeignModels, ret \in {Null} \cup Handles,
          faults \in BOOLEAN, decoded \in BOOLEAN :
           Decode(h, fm, ret, faults, decoded)
    \/ \E h \in Handles : Save(h)
    \/ \E h \in Handles : Encode(h)
    \/ \E h \in Handles : Query(h)
    \/ \E h \in Handles : Predict(h)
    \/ \E h \in Handles : PredictValues(h)
    \/ \E h \in Handles : PredictProbability(h)
    \/ \E h \in Handles : ViewParams(h)
    \/ \E h \in Handles : Drop(h)

SpecModel == ModInit /\ [][ModNext]_vars

\* A loaded Model Handle and a DataVec that is built, changed through its
\* mutable view, resorted and passed to the predict functions.
PredInit == VecIdle /\ ParIdle /\ ModIdle

PredNext ==
    \/ \E h \in Handles, fm \in ForeignModels : Load(h, fm, h, FALSE)
    \/ \E x \in DenseInputs : FromDense(x)
    \/ \E x \in SparseInputs : FromSparse(x)
    \/ \E n \in Nodes : DerefMutPush(n)
    \/ DerefMutPop
    \/ \E i \in 1..(MaxLen + 1), n \in Nodes : DerefMutSet(i, n)
    \/ Resort
    \/ DropVec
    \/ \E h \in Handles : CallPredict(h)
    \/ \E h \in Handles, dec_values \in Buffers : CallPredictValues(h, dec_values)
    \/ \E h \in Handles, prob_estimates \in Buffers :
           CallPredictProbability(h, prob_estimates)

SpecPredict == PredInit /\ [][PredNext]_vars

\* ============================================================ DataVec claims

IsSentinel(n) == n[1] = -1

\* Every index is the sentinel's or at least 1.
ValidIndices(x) == \A i \in 1..Len(x) : x[i][1] = -1 \/ x[i][1] >= 1

\* Ascending by index, sentinels after every other entry.
SortedAsc(s) ==
    \A i, j \in 1..Len(s) :
        i < j => \/ IsSentinel(s[j])
                 \/ (~IsSentinel(s[i]) /\ s[i][1] <= s[j][1])

EndsWithSentinel(s) == Len(s) > 0 /\ IsSentinel(s[Len(s)])

EndsWithOneSentinel(s) ==
    /\ EndsWithSentinel(s)
    /\ \A i \in 1..(Len(s) - 1) : ~IsSentinel(s[i])

\* C1: for every input whose non-sentinel indices are all >= 1 (the empty
\* input and inputs with several sentinels included), from_sparse returns
\* normally, and its output is sorted ascending by index with the sentinel
\* last and ends with exactly one sentinel.
C1_FromSparseSortedOneSentinel ==
    (dvOp.op = "from_sparse" /\ ValidIndices(dvOp.arg))
        => /\ ~dvOp.panic
           /\ dv.live
           /\ SortedAsc(dv.v)
           /\ EndsWithOneSentinel(dv.v)

\* C2: from_sparse panics, and builds no vector, for every input holding an
\* index that is less than 1 and not -1.
C2_FromSparseMalformedPanics ==
    (dvOp.op = "from_sparse" /\ ~ValidIndices(dvOp.arg))
        => (dvOp.panic /\ ~dv.live)

\* C9: a mutable raw-access view leaves the vector marked dirty; resort() on
\* a dirty vector returns normally and leaves it sorted ascending by index,
\* ending with a sentinel, and marked clean; resort() on a clean vector
\* changes nothing.
C9_ResortRestoresInvariant ==
    [][ /\ (dvOp'.op = "deref_mut" => ~dv'.is_sorted)
        /\ (dvOp'.op = "resort" /\ ~dv.is_sorted)
              => /\ ~dvOp'.panic
                 /\ dv'.live
                 /\ dv'.is_sorted
                 /\ SortedAsc(dv'.v)
                 /\ EndsWithSentinel(dv'.v)
        /\ (dvOp'.op = "resort" /\ dv.is_sorted) => dv' = dv
      ]_vars

\* C10: from_dense returns, for every dense input, one pair (i+1, values[i])
\* for each position i holding a nonzero value, in ascending position order,
\* then exactly one sentinel (-1, 0.0); the vector is marked clean.
C10_FromDenseExact ==
    dvOp.op = "from_dense"
        => LET x == dvOp.arg
               v == dv.v
               n == Len(v)
           IN  /\ dv.live
               /\ dv.is_sorted
               /\ n = Cardinality({i \in 1..Len(x) : x[i] # 0}) + 1
               /\ v[n] = Sentinel
               /\ \A k \in 1..(n - 1) :
                      /\ v[k][1] \in 1..Len(x)
                      /\ x[v[k][1]] # 0
                      /\ v[k][2] = x[v[k][1]]
               /\ \A j, k \in 1..(n - 1) : j < k => v[j][1] < v[k][1]

\* A dense input with a zero before a nonzero value: the zero is dropped and
\* the nonzero value keeps its 1-based position.
C10_Witness ==
    /\ dvOp.op = "from_dense"
    /\ Len(dvOp.arg) = 3
    /\ dvOp.arg[1] = 0 /\ dvOp.arg[2] # 0 /\ dvOp.arg[3] # 0
    /\ dv.v = <<(<<2, dvOp.arg[2]>>), (<<3, dvOp.arg[3]>>), Sentinel>>

\* ======================================================= SvmParameter claims

\* The array cached at address a before the step is still cached at the
\* same address, with the same contents, after it.
CacheKept(a, a2) == a # Null => (a2 = a /\ heap'[a] = heap[a])

\* C5: once a Parameter Set is frozen, no change to svm_type_param and no
\* crep translation changes or replaces the weight_labels and weights arrays
\* cached before.
C5_FrozenCacheUnchanged ==
    [][ (p.live /\ p.in_model /\ p'.live /\ p'.in_model)
            => /\ CacheKept(p.weight_labels, p'.weight_labels)
               /\ CacheKept(p.weights, p'.weights)
      ]_vars

\* The two lists hold the same (label, multiplier) pairs, each as often.
SamePairs(w1, w2) ==
    /\ Len(w1) = Len(w2)
    /\ \A e \in WeightElems \cup {w1[i] : i \in 1..Len(w1)} :
           Cardinality({i \in 1..Len(w1) : w1[i] = e})
               = Cardinality({i \in 1..Len(w2) : w2[i] = e})

\* The type-specific scalar of an SVM-type configuration.
TypeScalar(t) ==
    CASE t.t = "CSvc" -> t.c
      [] t.t = "EpsilonSvr" -> t.p
      [] OTHER -> t.nu

\* C8: for an unfrozen Parameter Set p, from_crep(crep(p)) has p's kernel
\* variant and kernel fields, p's SVM-type variant and type-specific scalar,
\* and p's shrinking, probability, cache_size and epsilon; for
\* ClassificationC its weight list holds the same (label, multiplier) pairs
\* as p's, an empty list being recovered as empty.
C8_RoundTrip ==
    (pOp.op = "from_crep" /\ ~p.in_model)
        => /\ recovered.kernel_param = p.kernel_param
           /\ recovered.svm_type_param.t = p.svm_type_param.t
           /\ TypeScalar(recovered.svm_type_param) = TypeScalar(p.svm_type_param)
           /\ recovered.shrinking = p.shrinking
           /\ recovered.probability = p.probability
           /\ recovered.cache_size = p.cache_size
           /\ recovered.epsilon = p.epsilon
           /\ p.svm_type_param.t = "CSvc"
                 => SamePairs(recovered.svm_type_param.weights, p.svm_type_param.weights)

\* A ClassificationC set with two weight overrides is translated a second
\* time, after an earlier translation filled its cache, and is recovered.
C8_Witness ==
    /\ pOp.op = "from_crep"
    /\ ~p.in_model
    /\ p.svm_type_param.t = "CSvc"
    /\ Len(p.svm_type_param.weights) = 2
    /\ Len(heap) = 4
    /\ recovered.svm_type_param.weights = p.svm_type_param.weights

\* The labels and the multipliers of a weight-override list, in order.
LabelsOf(weights) == [i \in 1..Len(weights) |-> weights[i].label]

MultipliersOf(weights) == [i \in 1..Len(weights) |-> weights[i].weight]

\* The cache entry at address a is a live array holding data.
Caches(a, data) == a # Null /\ heap[a].live /\ heap[a].data = data

\* C12: for an unfrozen Parameter Set, after any interleaving of edits to
\* svm_type_param and translations, a crep call made while the type is
\* ClassificationC leaves both cached arrays equal, element by element and
\* in order, to the labels and multipliers of the weight list as it is at
\* that call, and no crep call on an unfrozen set faults on a missing cache
\* entry.
C12_UnfrozenCrepCachesCurrentList ==
    /\ []((pOp.op = "crep" /\ p.live /\ ~p.in_model /\ p.svm_type_param.t = "CSvc")
            => /\ Caches(p.weight_labels, LabelsOf(p.svm_type_param.weights))
               /\ Caches(p.weights, MultipliersOf(p.svm_type_param.weights)))
    /\ [][(p.live /\ ~p.in_model /\ pOp'.op = "crep") => ~pOp'.panic]_vars

\* An unfrozen set is translated as ClassificationC with two overrides after
\* an earlier translation had filled the cache: the earlier arrays are
\* released and new ones hold the list.
C12_Witness ==
    /\ pOp.op = "crep"
    /\ p.live
    /\ ~p.in_model
    /\ p.svm_type_param.t = "CSvc"
    /\ Len(p.svm_type_param.weights) = 2
    /\ p.weight_labels = 3
    /\ p.weights = 4
    /\ ~heap[1].live
    /\ ~heap[2].live

\* C14: in every foreign struct crep produces for a ClassificationC set,
\* frozen or not, nr_weight is the length of the cached label array and of
\* the cached weight array that weight_label and weight point to.
C14_NrWeightMatchesArrays ==
    (pOp.op = "crep" /\ ~pOp.panic /\ p.svm_type_param.t = "CSvc")
        => /\ c_params.weight_label # Null
           /\ c_params.weight # Null
           /\ heap[c_params.weight_label].live
           /\ heap[c_params.weight].live
           /\ c_params.nr_weight = Len(heap[c_params.weight_label].data)
           /\ c_params.nr_weight = Len(heap[c_params.weight].data)

\* =========================================================== SvmModel claims

\* C3: a Model Handle releases its foreign model exactly once: nothing is
\* handed to svm_free_and_destroy_model while the handle lives, whatever is
\* called on it; the pointer it owns is never replaced and the model behind
\* it stays allocated; after the drop exactly that pointer has been released,
\* once.  This holds for trained and for loaded handles.
C3_ReleasedExactlyOnce ==
    /\ [](\A h \in Handles :
            /\ models[h].st \in {"none", "live"} => frees[h] = <<>>
            /\ (models[h].st = "live" /\ models[h].crep # Null)
                   => foreign[models[h].crep].alive
            /\ models[h].st = "dropped" => frees[h] = <<models[h].crep>>)
    /\ [][\A h \in Handles :
            models[h].st = "live" => models'[h].crep = models[h].crep]_vars

\* A handle was dropped and its foreign model released, once.
C3_Witness ==
    \E h \in Handles :
        /\ models[h].st = "dropped"
        /\ frees[h] = <<h>>
        /\ ~foreign[h].alive

\* C4: SvmModel::load (also when reached through decode) fails fatally and
\* builds no handle when svm_load_model returns null, so no Model Handle
\* holds a null foreign pointer.
C4_LoadNullFails ==
    /\ \A h \in Handles : models[h].st = "live" => models[h].crep # Null
    /\ (mOp.op \in {"load", "decode"} /\ mOp.null)
           => (crashed /\ models[mOp.h].st = "none")

\* C6: the Parameter Set retained by a handle that model_from_c_rep built is
\* frozen from creation until the handle is dropped, and no step (view_params
\* included) changes the retained set or its cached weight arrays.
C6_RetainedStaysFrozen ==
    /\ [](\A h \in Handles :
            (models[h].st = "live" /\ models[h].param.live) => models[h].param.in_model)
    /\ [][\A h \in Handles :
            (models[h].st = "live" /\ models[h].param.live /\ models'[h].st = "live")
                => /\ models'[h].param = models[h].param
                   /\ CacheKept(models[h].param.weight_labels, models'[h].param.weight_labels)
                   /\ CacheKept(models[h].param.weights, models'[h].param.weights)]_vars

\* A trained handle retains a frozen set with cached arrays while the caller
\* has taken a view of it and translated that view again.
C6_Witness ==
    \E h \in Handles :
        /\ models[h].st = "live"
        /\ models[h].param.live
        /\ models[h].param.in_model
        /\ models[h].param.weights # Null
        /\ mOp.op = "caller"
        /\ p.live
        /\ p.weights # Null
        /\ p.weights # models[h].param.weights

\* C7: the Parameter Set view_params returns is unfrozen, on the clone
\* branch and on the branch that rebuilds it from the foreign struct.
C7_ViewParamsUnfrozen ==
    (mOp.op = "view_params" /\ ~crashed) => (p.live /\ ~p.in_model)

\* view_params has cloned the frozen set a trained handle retains.
C7_Witness ==
    /\ mOp.op = "view_params"
    /\ ~crashed
    /\ models[mOp.h].param.live
    /\ models[mOp.h].param.in_model
    /\ p.live
    /\ p.weight_labels # Null

\* ========================================================== predict claims

\* C11: when predict_probability is called without a caller buffer, the
\* buffer it hands to svm_predict_probability has one slot per class of the
\* model, whatever the number of entries of the input vector.
C11_ProbabilityBufferPerClass ==
    (dvOp.op = "svm_predict_probability" /\ dvOp.arg.allocated)
        => dvOp.arg.len = get_nr_class(foreign[dvOp.arg.model])

\* C13: every vector that predict, predict_values or predict_probability
\* passes to the foreign library is sorted ascending by index and ends with
\* the sentinel, also when the DataVec was changed through its mutable view
\* and not resorted since.
C13_PredictGetsSortedVector ==
    dvOp.op \in {"svm_predict", "svm_predict_values", "svm_predict_probability"}
        => /\ SortedAsc(dvOp.arg.x)
           /\ EndsWithSentinel(dvOp.arg.x)

====
